---- MODULE Spec2Model ----
(***************************************************************************)
(* Model of the RFID reader protocol engine of smart-toolbox               *)
(* (src/index.js): serial frame reassembly, the bootstrap handshake, the   *)
(* scan event decoder and the session / aggregation controller.            *)
(*                                                                         *)
(* Every handler of index.js is one action.  A handler is written as an    *)
(* operator from a state record to a state record, so that a handler that  *)
(* calls other functions (parseResponse -> sendWithCrc -> logScannedTags)  *)
(* is the composition of their operators.                                  *)
(***************************************************************************)
EXTENDS Integers, Sequences, FiniteSets, TLC

\* ------------------------------------------------------------------ bounds
\* frames the reader device sends and commands the subscribers send in one run
MaxFrames == 2
MaxCmds == 2
\* single-tag specification: tag frames the device sends in one run
MaxTagFrames == 4
\* reassembler specification: total bytes received, bytes per data event
MaxStream == 10
MaxChunk == 3
\* checksum specification: bytes of a command
MaxCommand == 3

\* --------------------------------------------------------------- constants
MODE_AUTO == "auto"
MODE_INVENTORY == "inventory"
MODE_INTERACTIVE == "interactive"
MODE_READ_TAG == "read-tag"

HEADER_BYTE == 255
CMD_START_APP == 4
CMD_GET_RUNNING_STAGE == 12
CMD_RFID_INVENTORY == 33
CMD_MULTI_TAG_INVENTORY == 170
STAGE_BOOTLOADER == 17
STAGE_APP == 18
STATUS_SUCCESS == 0

\* Buffer.from(Constants.HEX_..., 'hex'): the literals as byte sequences
HEX_START_APP == <<255, 0, 4, 29, 11>>
HEX_GET_RUNNING_STAGE == <<255, 0, 12, 29, 3>>
HEX_SCAN_START ==
  <<255, 19, 170, 77, 111, 100, 117, 108, 101, 116, 101, 99, 104, 170, 72,
    0, 0, 0, 0, 0, 242, 187, 225, 203>>
HEX_SCAN_STOP ==
  <<255, 14, 170, 77, 111, 100, 117, 108, 101, 116, 101, 99, 104, 170, 73,
    243, 187>>

\* the literal parseResponse compares a CMD_START_APP frame with:
\* ff1404000000000000a4000300202205232205230000000010377c
AppRunningAck ==
  <<255, 20, 4, 0, 0, 0, 0, 0, 0, 164, 0, 3, 0, 32, 34, 5, 35, 34, 5, 35,
    0, 0, 0, 0, 16, 55, 124>>

\* the modes for which the handshake is completed
ScanModes == {MODE_AUTO, MODE_INVENTORY, MODE_READ_TAG}

\* null / undefined
NULL == -1

\* ----------------------------------------------------------------- helpers
Range(q) == {q[i] : i \in 1..Len(q)}

Min(S) == CHOOSE m \in S : \A n \in S : m <= n

\* Buffer.slice(a, b): 0-based, end exclusive, a negative index counts from
\* the end, both indices are clamped to 0..length
SliceIndex(len, n) ==
  IF n < 0 THEN (IF len + n < 0 THEN 0 ELSE len + n)
  ELSE IF n > len THEN len ELSE n

Slice(buf, a, b) ==
  LET lo == SliceIndex(Len(buf), a)
      hi == SliceIndex(Len(buf), b)
  IN IF hi <= lo THEN <<>> ELSE SubSeq(buf, lo + 1, hi)

\* hexString.startsWith(literal) on the hex rendering of whole bytes
StartsWith(data, lit) ==
  Len(data) >= Len(lit) /\ SubSeq(data, 1, Len(lit)) = lit

HexDigits ==
  <<"0", "1", "2", "3", "4", "5", "6", "7", "8", "9",
    "A", "B", "C", "D", "E", "F">>

\* buf.toString('hex').toUpperCase()
RECURSIVE ToHexUpper(_)
ToHexUpper(bytes) ==
  IF bytes = <<>> THEN ""
  ELSE HexDigits[(Head(bytes) \div 16) + 1] \o HexDigits[(Head(bytes) % 16) + 1]
         \o ToHexUpper(Tail(bytes))

\* A JavaScript Map is a sequence of [key, ...] records in insertion order.
MapHas(m, k) == \E i \in 1..Len(m) : m[i].key = k
MapIndex(m, k) == CHOOSE i \in 1..Len(m) : m[i].key = k
MapGet(m, k) == m[MapIndex(m, k)]
\* Map.set: an existing key keeps its position, a new key goes last
MapSet(m, k, v) ==
  IF MapHas(m, k) THEN [m EXCEPT ![MapIndex(m, k)] = v] ELSE Append(m, v)
\* the count stored under k, or 0
CountOf(m, k) == IF MapHas(m, k) THEN MapGet(m, k).count ELSE 0

\* ------------------------------------------------------------- environment
\* the sockets of the subscribers that connect in one run
Clients == {"c1"}

\* the inventory file named by --inventory: lines of comma-separated cells
InventoryFile == << <<"id", "EPC", "item">>, <<"1", "A1", "hammer">> >>

\* the texts a subscriber uploads with upload_inventory:
CsvUploads ==
  { << <<"id", "EPC", "item">>, <<"2", "B2", "wrench">> >>,
    << <<"id", "item">>, <<"3", "pliers">> >> }

\* frames the reader device sends (the trailing CRC is never read by index.js)
StageFrame(stage) == <<255, 1, 12, 0, 0, stage, 0, 0>>
TagFrame(cmd, epcByte) ==
  <<255, 8, cmd, 0, 0, 0, 0, 0, 0, 0, epcByte, 0, 0, 0, 0>>

\* tag reads of the identifiers "A1" and "B2", one per tag-read command code
TagFrames ==
  { TagFrame(CMD_RFID_INVENTORY, 161), TagFrame(CMD_MULTI_TAG_INVENTORY, 178) }

HandshakeFrames ==
  { AppRunningAck, StageFrame(STAGE_APP), StageFrame(STAGE_BOOTLOADER) }

DeviceFrames == HandshakeFrames \cup TagFrames

\* a tag-read frame with the status bytes hi, lo
TagFrameStatus(cmd, hi, lo, epcByte) ==
  <<255, 8, cmd, hi, lo, 0, 0, 0, 0, 0, epcByte, 0, 0, 0, 0>>

\* successful tag reads whose payload, 3 bytes, is shorter than the 5 bytes
\* and the 2 bytes cut from its ends
ShortTagFrames ==
  { <<255, 3, CMD_RFID_INVENTORY, 0, 0, 0, 0, 0, 0, 0>>,
    <<255, 3, CMD_MULTI_TAG_INVENTORY, 0, 0, 0, 0, 0, 0, 0>> }

\* frames parseResponse has no branch for: a command code it does not know
\* (0x63) and tag reads whose status is 0x0001 or 0x0100
OtherFrames ==
  { <<255, 1, 99, 0, 0, 18, 0, 0>>,
    TagFrameStatus(CMD_RFID_INVENTORY, 0, 1, 161),
    TagFrameStatus(CMD_MULTI_TAG_INVENTORY, 1, 0, 178) }

\* where the transport may cut a frame in two data events
SplitAt == {6}

\* the byte values of the reassembler specification
RxBytes == {0, 1, 255}

\* the byte values of the checksum specification
CrcBytes == {0, 4, 255}

\* the four commands index.js sends
Commands ==
  {HEX_START_APP, HEX_GET_RUNNING_STAGE, HEX_SCAN_START, HEX_SCAN_STOP}

\* what sendWithCrc is called with: the four commands, any command of up to
\* MaxCommand bytes of CrcBytes, and the digits "123456789" behind a header
\* byte
Ascii123456789 == <<49, 50, 51, 52, 53, 54, 55, 56, 57>>

CrcInputs ==
  UNION {[1..n -> CrcBytes] : n \in 0..MaxCommand}
    \cup Commands \cup {<<HEADER_BYTE>> \o Ascii123456789}

\* ------------------------------------------------------------------- state
VARIABLES
  \* index.js, main(): the program's variables
  mode,                   \* --mode, reassigned by the subscriber commands
  inventoryFilePath,      \* TRUE iff --inventory names a file
  inventoryMode,          \* mode === MODE_INVENTORY at start-up
  isDbgLogEnabled,        \* --dbg
  packetBuffer,           \* bytes received and not yet consumed
  autoModeState,          \* 0, 1 or 2
  isScanning,
  refreshIntervalId,      \* the last setInterval handle, or NULL
  scannedTagsCumulative,  \* Map epc -> count
  scannedTagsRefresh,     \* Map epc -> count
  inventoryData,          \* Map epc -> {id, epc, item}
  wsClients,              \* array of subscribers
  readTagScans,           \* Map epc -> count
  \* the runtime around it
  intervals,              \* handles of the armed setInterval timers
  timeouts,               \* pending 2000 ms handshake timeouts (they fire in order)
  exitTimer,              \* the SIGINT handler's 1000 ms exit timeout is pending
  running,                \* the process has not exited
  portOpened,             \* the serial port's 'open' event was delivered
  wire,                   \* bytes the device has sent, not yet delivered
  nFrames,                \* frames the device has sent
  nCmds,                  \* commands the subscribers have sent
  readyState,             \* per socket: "NONE", "OPEN", "CLOSED", then "GONE"
  throws,                 \* the parseResponse call of this data event throws
  \* what the last handler put out
  written,                \* byte sequences handed to port.write
  sent,                   \* messages handed to client.send
  \* history variables (observers, never read by a handler)
  lastEvent,              \* the handler that ran last
  flushed,                \* the last handler called logScannedTags
  flushCalls,             \* logScannedTags calls since the last tag observation
  obs,                    \* identifiers decoded by the last handler
  counted,                \* identifiers the last handler added to the tables
  skippedAbsent,          \* this session the inventory filter discarded one
  sessionObs,             \* identifiers of this single-tag session, in order
  reported,               \* the identifier computed after each of them
  hsTrace,                \* handshake events since the last startAutoMode
  staleTimeouts,          \* pending handshake timeouts armed before a stop
  batched,                \* Map epc -> count: the flush batches of this session
  tsvFile,                \* the rows of epc_scan_data.tsv, NULL until written
  rxStream,               \* reassembler specification: all bytes received
  rxFrames                \* reassembler specification: frames parsed

vars ==
  << mode, inventoryFilePath, inventoryMode, isDbgLogEnabled, throws,
     packetBuffer, autoModeState,
     isScanning, refreshIntervalId, scannedTagsCumulative, scannedTagsRefresh,
     inventoryData, wsClients, readTagScans, intervals, timeouts, exitTimer,
     running, portOpened, wire, nFrames, nCmds, readyState, written, sent, lastEvent, flushed,
     flushCalls, obs, counted, skippedAbsent, sessionObs, reported, hsTrace,
     staleTimeouts, batched, tsvFile,
     rxStream, rxFrames >>

\* the state as one record, the argument and result of every handler
St ==
  [ mode |-> mode, inventoryFilePath |-> inventoryFilePath,
    inventoryMode |-> inventoryMode, isDbgLogEnabled |-> isDbgLogEnabled,
    throws |-> throws, packetBuffer |-> packetBuffer,
    autoModeState |-> autoModeState, isScanning |-> isScanning,
    refreshIntervalId |-> refreshIntervalId,
    scannedTagsCumulative |-> scannedTagsCumulative,
    scannedTagsRefresh |-> scannedTagsRefresh,
    inventoryData |-> inventoryData, wsClients |-> wsClients,
    readTagScans |-> readTagScans, intervals |-> intervals,
    timeouts |-> timeouts, exitTimer |-> exitTimer, running |-> running,
    portOpened |-> portOpened, wire |-> wire, nFrames |-> nFrames,
    nCmds |-> nCmds, readyState |-> readyState,
    written |-> written, sent |-> sent, lastEvent |-> lastEvent,
    flushed |-> flushed, flushCalls |-> flushCalls, obs |-> obs,
    counted |-> counted,
    skippedAbsent |-> skippedAbsent, sessionObs |-> sessionObs,
    reported |-> reported, hsTrace |-> hsTrace,
    staleTimeouts |-> staleTimeouts, batched |-> batched,
    tsvFile |-> tsvFile,
    rxStream |-> rxStream,
    rxFrames |-> rxFrames ]

Commit(s) ==
  /\ mode' = s.mode
  /\ inventoryFilePath' = s.inventoryFilePath
  /\ inventoryMode' = s.inventoryMode
  /\ isDbgLogEnabled' = s.isDbgLogEnabled
  /\ throws' = s.throws
  /\ packetBuffer' = s.packetBuffer
  /\ autoModeState' = s.autoModeState
  /\ isScanning' = s.isScanning
  /\ refreshIntervalId' = s.refreshIntervalId
  /\ scannedTagsCumulative' = s.scannedTagsCumulative
  /\ scannedTagsRefresh' = s.scannedTagsRefresh
  /\ inventoryData' = s.inventoryData
  /\ wsClients' = s.wsClients
  /\ readTagScans' = s.readTagScans
  /\ intervals' = s.intervals
  /\ timeouts' = s.timeouts
  /\ exitTimer' = s.exitTimer
  /\ running' = s.running
  /\ portOpened' = s.portOpened
  /\ wire' = s.wire
  /\ nFrames' = s.nFrames
  /\ nCmds' = s.nCmds
  /\ readyState' = s.readyState
  /\ written' = s.written
  /\ sent' = s.sent
  /\ lastEvent' = s.lastEvent
  /\ flushed' = s.flushed
  /\ flushCalls' = s.flushCalls
  /\ obs' = s.obs
  /\ counted' = s.counted
  /\ skippedAbsent' = s.skippedAbsent
  /\ sessionObs' = s.sessionObs
  /\ reported' = s.reported
  /\ hsTrace' = s.hsTrace
  /\ staleTimeouts' = s.staleTimeouts
  /\ batched' = s.batched
  /\ tsvFile' = s.tsvFile
  /\ rxStream' = s.rxStream
  /\ rxFrames' = s.rxFrames

\* the state a handler named ev starts from: nothing put out yet
Begin(ev) ==
  [St EXCEPT !.written = <<>>, !.sent = <<>>, !.flushed = FALSE,
             !.obs = <<>>, !.counted = <<>>, !.lastEvent = ev]

\* the variables as main() declares them, for the given command line
Declared(m, path) ==
  [ mode |-> m, inventoryFilePath |-> path,
    inventoryMode |-> (m = MODE_INVENTORY), isDbgLogEnabled |-> TRUE,
    throws |-> FALSE, packetBuffer |-> <<>>,
    autoModeState |-> 0, isScanning |-> FALSE, refreshIntervalId |-> NULL,
    scannedTagsCumulative |-> <<>>, scannedTagsRefresh |-> <<>>,
    inventoryData |-> <<>>, wsClients |-> <<>>, readTagScans |-> <<>>,
    intervals |-> {}, timeouts |-> 0, exitTimer |-> FALSE, running |-> TRUE,
    portOpened |-> FALSE, wire |-> <<>>, nFrames |-> 0, nCmds |-> 0,
    readyState |-> [c \in Clients |-> "NONE"],
    written |-> <<>>, sent |-> <<>>, lastEvent |-> "main", flushed |-> FALSE,
    flushCalls |-> 0, obs |-> <<>>, counted |-> <<>>, skippedAbsent |-> FALSE,
    sessionObs |-> <<>>, reported |-> <<>>,
    hsTrace |-> <<>>, staleTimeouts |-> 0, batched |-> <<>>,
    tsvFile |-> NULL,
    rxStream |-> <<>>,
    rxFrames |-> <<>> ]

\* process.exit(): the process and its variables are gone
Exited(ev) ==
  [Declared(MODE_AUTO, FALSE) EXCEPT !.running = FALSE, !.lastEvent = ev,
                                     !.tsvFile = tsvFile]

\* the handshake histories that are followed; any other history is Overflow
Overflow == <<"other">>
Followed ==
  { <<>>, <<"timeout">>, <<"ack">>, <<"timeout", "app">>,
    <<"timeout", "boot">>, <<"timeout", "boot", "app">> }
TraceAppend(t, e) ==
  IF t # Overflow /\ Append(t, e) \in Followed THEN Append(t, e) ELSE Overflow

\* --------------------------------------------------------------- inventory
IndexOf(row, name) ==
  IF \E i \in 1..Len(row) : row[i] = name
  THEN Min({i \in 1..Len(row) : row[i] = name}) - 1
  ELSE -1

\* parseInt(text, 10) of the id cells that occur
ParseInt(text) ==
  CASE text = "1" -> 1 [] text = "2" -> 2 [] text = "3" -> 3 [] OTHER -> NULL

RECURSIVE InventoryRows(_, _, _, _, _, _)
InventoryRows(lines, i, idIndex, epcIndex, itemIndex, acc) ==
  IF i > Len(lines) THEN acc
  ELSE LET values == lines[i]
           id == IF idIndex # -1 THEN ParseInt(values[idIndex + 1]) ELSE i - 1
           epc == values[epcIndex + 1]
           item == IF itemIndex # -1 THEN values[itemIndex + 1] ELSE "N/A"
           next == IF epc # ""
                   THEN MapSet(acc, epc, [key |-> epc, id |-> id, item |-> item])
                   ELSE acc
       IN InventoryRows(lines, i + 1, idIndex, epcIndex, itemIndex, next)

\* parseInventoryData that also empties the window table
parseInventoryDataReset(s, csvData) ==
  [s EXCEPT !.scannedTagsRefresh = <<>>,
            !.inventoryData =
              IF Len(csvData) = 0 \/ IndexOf(csvData[1], "EPC") = -1 THEN <<>>
              ELSE InventoryRows(csvData, 2, IndexOf(csvData[1], "id"),
                                 IndexOf(csvData[1], "EPC"),
                                 IndexOf(csvData[1], "item"), <<>>)]

\* csvData is the text already cut into its non-blank lines and their cells
parseInventoryData(s, csvData) ==
  LET cleared == [s EXCEPT !.inventoryData = <<>>]
  IN IF Len(csvData) = 0 THEN cleared
     ELSE LET headers == csvData[1]
              idIndex == IndexOf(headers, "id")
              epcIndex == IndexOf(headers, "EPC")
              itemIndex == IndexOf(headers, "item")
          IN IF epcIndex = -1 THEN cleared
             ELSE [cleared EXCEPT !.inventoryData =
                     InventoryRows(csvData, 2, idIndex, epcIndex, itemIndex, <<>>)]

\* the file is read and parsed; a read error is caught and logged
loadInventory(s) == parseInventoryData(s, InventoryFile)

\* Array.from(inventoryData.values()).map(item => ({...item, count: 0, ...}))
InitialInventory(s) ==
  [i \in 1..Len(s.inventoryData) |->
     [id |-> s.inventoryData[i].id, epc |-> s.inventoryData[i].key,
      item |-> s.inventoryData[i].item, count |-> 0]]

\* ---------------------------------------------------------------- messages
Message(c, type, list, epc) ==
  [to |-> c, type |-> type, list |-> list, epc |-> epc]

\* clients.forEach(client => { if (client.readyState === 1) client.send(m) })
RECURSIVE Broadcast(_, _, _, _, _)
Broadcast(s, i, type, list, epc) ==
  IF i > Len(s.wsClients) THEN s
  ELSE LET c == s.wsClients[i]
           s1 == IF s.readyState[c] = "OPEN"
                 THEN [s EXCEPT !.sent = Append(@, Message(c, type, list, epc))]
                 ELSE s
       IN Broadcast(s1, i + 1, type, list, epc)

\* ------------------------------------------------------------------- flush
\* InventoryUpdates without the inventory lookup: every window entry is kept
RECURSIVE InventoryUpdatesAll(_, _, _)
InventoryUpdatesAll(s, i, acc) ==
  IF i > Len(s.scannedTagsRefresh) THEN acc
  ELSE LET data == s.scannedTagsRefresh[i]
       IN InventoryUpdatesAll(s, i + 1,
            Append(acc, [id |-> NULL, epc |-> data.key,
                         item |-> "N/A", count |-> data.count]))

RECURSIVE InventoryUpdates(_, _, _)
InventoryUpdates(s, i, acc) ==
  IF i > Len(s.scannedTagsRefresh) THEN acc
  ELSE LET data == s.scannedTagsRefresh[i]
           epc == data.key
       IN IF MapHas(s.inventoryData, epc)
          THEN LET item == MapGet(s.inventoryData, epc)
               IN InventoryUpdates(s, i + 1,
                    Append(acc, [id |-> item.id, epc |-> epc,
                                 item |-> item.item, count |-> data.count]))
          ELSE InventoryUpdates(s, i + 1, acc)

\* generateTsv(): a row for every entry of the cumulative table
generateTsv(s) ==
  [i \in 1..Len(s.scannedTagsCumulative) |->
     LET epc == s.scannedTagsCumulative[i].key
     IN [id |-> i, epc |-> epc,
         item_name |-> IF MapHas(s.inventoryData, epc)
                       THEN MapGet(s.inventoryData, epc).item ELSE "N/A",
         count |-> s.scannedTagsCumulative[i].count]]

\* saveTsvFile(): no handler of index.js calls it
saveTsvFile(s) ==
  IF Len(s.scannedTagsCumulative) = 0 THEN s
  ELSE [s EXCEPT !.tsvFile = generateTsv(s)]

\* the counts of a batch added to those of the batches before it
RECURSIVE AddBatch(_, _, _)
AddBatch(m, inventoryUpdates, i) ==
  IF i > Len(inventoryUpdates) THEN m
  ELSE LET epc == inventoryUpdates[i].epc
       IN AddBatch(MapSet(m, epc, [key |-> epc,
                     count |-> CountOf(m, epc) + inventoryUpdates[i].count]),
                   inventoryUpdates, i + 1)

\* logScannedTags that empties the cumulative table as well
logScannedTagsClearBoth(s) ==
  LET inventoryUpdates == InventoryUpdates(s, 1, <<>>)
      s1 == [s EXCEPT !.scannedTagsRefresh = <<>>,
                      !.scannedTagsCumulative = <<>>,
                      !.flushed = TRUE,
                      !.flushCalls = IF @ >= 2 THEN 2 ELSE @ + 1]
  IN IF Len(inventoryUpdates) > 0
     THEN Broadcast(s1, 1, "updates", inventoryUpdates, "")
     ELSE s1

\* logScannedTags that leaves the window table as it is
logScannedTagsKeep(s) ==
  LET inventoryUpdates == InventoryUpdates(s, 1, <<>>)
      s1 == [s EXCEPT !.flushed = TRUE,
                      !.flushCalls = IF @ >= 2 THEN 2 ELSE @ + 1]
  IN IF Len(inventoryUpdates) > 0
     THEN Broadcast(s1, 1, "updates", inventoryUpdates, "")
     ELSE s1

logScannedTags(s) ==
  LET inventoryUpdates == InventoryUpdates(s, 1, <<>>)
      s1 == [s EXCEPT !.scannedTagsRefresh = <<>>,
                      !.batched = AddBatch(@, inventoryUpdates, 1),
                      !.flushed = TRUE,
                      !.flushCalls = IF @ >= 2 THEN 2 ELSE @ + 1]
  IN IF Len(inventoryUpdates) > 0
     THEN Broadcast(s1, 1, "updates", inventoryUpdates, "")
     ELSE s1

\* --------------------------------------------------------------------- CRC
MSG_CRC_INIT == 65535
MSG_CCITT_CRC_POLY == 4129

\* x & m for a mask m of one bit
BitAnd(x, m) == ((x \div m) % 2) * m

\* x | bit that loses the bit
BitOrNone(x, bit) == x

\* x | bit for bit 0 or 1
BitOr(x, bit) == IF x % 2 = 1 THEN x ELSE x + bit

\* a ^ b
BitXor[a \in Nat, b \in Nat] ==
  IF a = 0 THEN b
  ELSE IF b = 0 THEN a
  ELSE ((a + b) % 2) + 2 * BitXor[a \div 2, b \div 2]

\* CRC.crc8: one round of the for loop; value is this.value, bit the data bit
crc8Round[value \in Nat, bit \in Nat] ==
  LET xorFlag == BitAnd(value, 32768)
      ored == BitOr((value * 2) % 65536, bit)
  IN IF xorFlag > 0 THEN BitXor[ored, MSG_CCITT_CRC_POLY] ELSE ored

\* CRC.crc8: this.value after the for loop; dcdBitMask[i] and register[i] are
\* the two variables at the start of round i
crc8[value \in Nat, v \in Nat] ==
  LET dcdBitMask[i \in 0..7] == IF i = 0 THEN 128 ELSE dcdBitMask[i - 1] \div 2
      register[i \in 0..8] ==
        IF i = 0 THEN value
        ELSE crc8Round[register[i - 1],
                       IF BitAnd(v, dcdBitMask[i - 1]) = dcdBitMask[i - 1]
                       THEN 1 ELSE 0]
  IN register[8]

\* calculate without reset(): this.value starts from the constructor's 0
calculateNoReset(data) ==
  LET register[n \in 0..Len(data)] ==
        IF n = 0 THEN 0 ELSE crc8[register[n - 1], data[n]]
  IN register[Len(data)]

\* CRC.calculate: reset(), then crc8 for every byte of data; register[n] is
\* this.value after n bytes
calculate(data) ==
  LET register[n \in 0..Len(data)] ==
        IF n = 0 THEN MSG_CRC_INIT ELSE crc8[register[n - 1], data[n]]
  IN register[Len(data)]

\* writeUInt16BE with the low byte first
writeUInt16LE(n) == <<n % 256, n \div 256>>

\* Buffer.writeUInt16BE into a buffer of two bytes, Buffer.readUInt16BE
writeUInt16BE(n) == <<n \div 256, n % 256>>
readUInt16BE(buffer, offset) == buffer[offset + 1] * 256 + buffer[offset + 2]

\* CRC.calculate is a function of its bytes alone: crc.calculate(data.slice(1))
\* of the four commands index.js sends is computed once and looked up
CommandCrc == [data \in Commands |-> calculate(Slice(data, 1, Len(data)))]

\* sendWithCrc: the packet port.write gets
packetToSend(data) ==
  LET calculatedCrc == IF data \in Commands THEN CommandCrc[data]
                       ELSE calculate(Slice(data, 1, Len(data)))
      crcBuffer == writeUInt16BE(calculatedCrc)
  IN data \o crcBuffer

\* ----------------------------------------------------------------- sending
\* a handle no armed timer and no variable holds
FreshHandle(s) ==
  Min({h \in 1..(Cardinality(s.intervals) + 2) :
         h \notin s.intervals /\ h # s.refreshIntervalId})

\* clearInterval that cancels nothing
clearIntervalNothing(s, h) == s

clearInterval(s, h) == [s EXCEPT !.intervals = @ \ {h}]

\* sendWithCrc whose scan-start branch leaves the cumulative table as it is
sendWithCrcKeepCumulative(s, data) ==
  LET s1 == [s EXCEPT !.written = Append(@, packetToSend(data))]
  IN IF StartsWith(data, HEX_SCAN_START)
     THEN LET s2 == [s1 EXCEPT !.isScanning = TRUE,
                               !.scannedTagsRefresh = <<>>,
                               !.skippedAbsent = FALSE]
              s3 == IF s2.refreshIntervalId # NULL
                    THEN clearInterval(s2, s2.refreshIntervalId)
                    ELSE s2
              h == FreshHandle(s3)
          IN [s3 EXCEPT !.refreshIntervalId = h, !.intervals = @ \cup {h}]
     ELSE IF StartsWith(data, HEX_SCAN_STOP)
     THEN IF s1.isScanning
          THEN LET s2 == [s1 EXCEPT !.isScanning = FALSE,
                                    !.staleTimeouts = s1.timeouts]
                   s3 == IF s2.refreshIntervalId # NULL
                         THEN clearInterval(s2, s2.refreshIntervalId)
                         ELSE s2
               IN logScannedTags(s3)
          ELSE s1
     ELSE s1

\* sendWithCrc from hexString.startsWith on; s1 is the state after port.write
sendWithCrcStartsWith(s1, data) ==
  IF StartsWith(data, HEX_SCAN_START)
     THEN LET s2 == [s1 EXCEPT !.isScanning = TRUE,
                               !.scannedTagsCumulative = <<>>,
                               !.scannedTagsRefresh = <<>>,
                               !.skippedAbsent = FALSE,
                               !.batched = <<>>]
              s3 == IF s2.refreshIntervalId # NULL
                    THEN clearInterval(s2, s2.refreshIntervalId)
                    ELSE s2
              h == FreshHandle(s3)
          IN [s3 EXCEPT !.refreshIntervalId = h, !.intervals = @ \cup {h}]
     ELSE IF StartsWith(data, HEX_SCAN_STOP)
     THEN IF s1.isScanning
          THEN LET s2 == [s1 EXCEPT !.isScanning = FALSE,
                                    !.staleTimeouts = s1.timeouts]
                   s3 == IF s2.refreshIntervalId # NULL
                         THEN clearInterval(s2, s2.refreshIntervalId)
                         ELSE s2
               IN logScannedTags(s3)
          ELSE s1
     ELSE s1

sendWithCrc(s, data) ==
  sendWithCrcStartsWith([s EXCEPT !.written = Append(@, packetToSend(data))],
                        data)

\* ----------------------------------------------------------------- decoding
\* the loop over readTagScans.entries(): the first entry with the highest
\* count, '' for an empty table
\* the loop without the update of maxCount: the last entry wins
RECURSIVE MostFrequentLast(_, _, _, _)
MostFrequentLast(m, i, maxCount, mostFrequentEpc) ==
  IF i > Len(m) THEN mostFrequentEpc
  ELSE IF m[i].count > maxCount
       THEN MostFrequentLast(m, i + 1, maxCount, m[i].key)
       ELSE MostFrequentLast(m, i + 1, maxCount, mostFrequentEpc)

\* the loop with >= for >: the last entry with the highest count wins
RECURSIVE MostFrequentGeq(_, _, _, _)
MostFrequentGeq(m, i, maxCount, mostFrequentEpc) ==
  IF i > Len(m) THEN mostFrequentEpc
  ELSE IF m[i].count >= maxCount
       THEN MostFrequentGeq(m, i + 1, m[i].count, m[i].key)
       ELSE MostFrequentGeq(m, i + 1, maxCount, mostFrequentEpc)

RECURSIVE MostFrequentFrom(_, _, _, _)
MostFrequentFrom(m, i, maxCount, mostFrequentEpc) ==
  IF i > Len(m) THEN mostFrequentEpc
  ELSE IF m[i].count > maxCount
       THEN MostFrequentFrom(m, i + 1, m[i].count, m[i].key)
       ELSE MostFrequentFrom(m, i + 1, maxCount, mostFrequentEpc)

MostFrequentEpc(m) == MostFrequentFrom(m, 1, 0, "")

\* one more observation of epc in a counter table
Increment(m, epc) ==
  MapSet(m, epc, [key |-> epc, count |-> CountOf(m, epc) + 1])

\* the identifier a tag-read payload carries
EpcHex(payload) == ToHexUpper(Slice(payload, 5, Len(payload) - 2))

\* readTagObservation behind the inventory filter
readTagObservationFiltered(s, epcHex) ==
  IF ~MapHas(s.inventoryData, epcHex) THEN s
  ELSE LET s1 == [s EXCEPT !.readTagScans = Increment(@, epcHex)]
           mostFrequentEpc == MostFrequentEpc(s1.readTagScans)
           s2 == [s1 EXCEPT !.sessionObs = Append(@, epcHex),
                            !.reported = Append(@, mostFrequentEpc)]
       IN Broadcast(s2, 1, "epc", <<>>, mostFrequentEpc)

readTagObservation(s, epcHex) ==
  LET s1 == [s EXCEPT !.readTagScans = Increment(@, epcHex)]
      mostFrequentEpc == MostFrequentEpc(s1.readTagScans)
      s2 == [s1 EXCEPT !.sessionObs = Append(@, epcHex),
                       !.reported = Append(@, mostFrequentEpc)]
  IN Broadcast(s2, 1, "epc", <<>>, mostFrequentEpc)

\* countObservation that leaves the cumulative table as it is
countObservationWindowOnly(s, epcHex) ==
  IF s.inventoryMode /\ ~MapHas(s.inventoryData, epcHex)
  THEN [s EXCEPT !.skippedAbsent = TRUE]
  ELSE [s EXCEPT !.scannedTagsRefresh = Increment(@, epcHex),
                 !.counted = Append(@, epcHex)]

\* countObservation that leaves the window table as it is
countObservationCumulativeOnly(s, epcHex) ==
  IF s.inventoryMode /\ ~MapHas(s.inventoryData, epcHex)
  THEN [s EXCEPT !.skippedAbsent = TRUE]
  ELSE [s EXCEPT !.scannedTagsCumulative = Increment(@, epcHex),
                 !.counted = Append(@, epcHex)]

countObservation(s, epcHex) ==
  IF s.inventoryMode /\ ~MapHas(s.inventoryData, epcHex)
  THEN [s EXCEPT !.skippedAbsent = TRUE]
  ELSE [s EXCEPT !.scannedTagsCumulative = Increment(@, epcHex),
                 !.scannedTagsRefresh = Increment(@, epcHex),
                 !.counted = Append(@, epcHex)]

\* parseResponse that counts a tag read whatever its status is
parseResponseAnyStatus(s, buffer) ==
  IF buffer[1] # HEADER_BYTE THEN s
  ELSE
    LET dataLength == buffer[2]
        commandCode == buffer[3]
        payload == Slice(buffer, 5, 5 + dataLength)
    IN IF commandCode = CMD_START_APP /\ buffer = AppRunningAck
       THEN LET s1 == [s EXCEPT !.hsTrace = TraceAppend(@, "ack")]
            IN IF s1.mode \in ScanModes
               THEN sendWithCrc([s1 EXCEPT !.autoModeState = 2], HEX_SCAN_START)
               ELSE s1
       ELSE IF commandCode = CMD_GET_RUNNING_STAGE
       THEN LET runningStage == IF Len(payload) > 0 THEN payload[1] ELSE NULL
            IN IF runningStage = STAGE_APP
               THEN LET s1 == [s EXCEPT !.hsTrace = TraceAppend(@, "app")]
                    IN IF s1.mode \in ScanModes /\ s1.autoModeState = 1
                       THEN sendWithCrc([s1 EXCEPT !.autoModeState = 2],
                                        HEX_SCAN_START)
                       ELSE s1
               ELSE IF runningStage = STAGE_BOOTLOADER
               THEN LET s1 == [s EXCEPT !.hsTrace = TraceAppend(@, "boot")]
                    IN IF s1.mode \in ScanModes /\ s1.autoModeState = 1
                       THEN sendWithCrc([s1 EXCEPT !.autoModeState = 0],
                                        HEX_START_APP)
                       ELSE s1
               ELSE s
       ELSE IF /\ s.isScanning
               /\ commandCode \in {CMD_RFID_INVENTORY, CMD_MULTI_TAG_INVENTORY}
       THEN LET epcHex == EpcHex(payload)
                s1 == [s EXCEPT !.obs = Append(@, epcHex), !.flushCalls = 0]
            IN IF s1.mode = MODE_READ_TAG
               THEN readTagObservation(s1, epcHex)
               ELSE countObservation(s1, epcHex)
       ELSE s

parseResponse(s, buffer) ==
  IF buffer[1] # HEADER_BYTE THEN s
  ELSE
    LET dataLength == buffer[2]
        commandCode == buffer[3]
        statusCode == buffer[4] * 256 + buffer[5]
        payload == Slice(buffer, 5, 5 + dataLength)
    IN IF commandCode = CMD_START_APP /\ buffer = AppRunningAck
       THEN LET s1 == [s EXCEPT !.hsTrace = TraceAppend(@, "ack")]
            IN IF s1.mode \in ScanModes
               THEN sendWithCrc([s1 EXCEPT !.autoModeState = 2], HEX_SCAN_START)
               ELSE s1
       ELSE IF commandCode = CMD_GET_RUNNING_STAGE
       THEN LET runningStage == IF Len(payload) > 0 THEN payload[1] ELSE NULL
            IN IF runningStage = STAGE_APP
               THEN LET s1 == [s EXCEPT !.hsTrace = TraceAppend(@, "app")]
                    IN IF s1.mode \in ScanModes /\ s1.autoModeState = 1
                       THEN sendWithCrc([s1 EXCEPT !.autoModeState = 2],
                                        HEX_SCAN_START)
                       ELSE s1
               ELSE IF runningStage = STAGE_BOOTLOADER
               THEN LET s1 == [s EXCEPT !.hsTrace = TraceAppend(@, "boot")]
                    IN IF s1.mode \in ScanModes /\ s1.autoModeState = 1
                       THEN sendWithCrc([s1 EXCEPT !.autoModeState = 0],
                                        HEX_START_APP)
                       ELSE s1
               ELSE s
       ELSE IF /\ s.isScanning
               /\ commandCode \in {CMD_RFID_INVENTORY, CMD_MULTI_TAG_INVENTORY}
               /\ statusCode = STATUS_SUCCESS
       THEN LET epcHex == EpcHex(payload)
                s1 == [s EXCEPT !.obs = Append(@, epcHex), !.flushCalls = 0]
            IN IF s1.mode = MODE_READ_TAG
               THEN readTagObservation(s1, epcHex)
               ELSE countObservation(s1, epcHex)
       ELSE s

\* -------------------------------------------------------------- reassembly
\* dataLoop without the wait for a whole frame: whatever is buffered behind a
\* header byte is handed on
RECURSIVE dataLoopNoWait(_)
dataLoopNoWait(s) ==
  IF Len(s.packetBuffer) < 5 THEN s
  ELSE IF s.packetBuffer[1] # HEADER_BYTE
  THEN dataLoopNoWait([s EXCEPT !.packetBuffer = Tail(@)])
  ELSE LET dataLengthFromField == s.packetBuffer[2]
           totalPacketLength == 1 + 1 + 1 + 2 + dataLengthFromField + 2
           packet == Slice(s.packetBuffer, 0, totalPacketLength)
           s1 == parseResponse(
                   [s EXCEPT !.rxFrames = Append(@, packet)], packet)
       IN dataLoopNoWait([s1 EXCEPT !.packetBuffer =
                            Slice(@, totalPacketLength, Len(@))])

\* dataLoop that drops all of the buffer when its first byte is not the header
RECURSIVE dataLoopDropAll(_)
dataLoopDropAll(s) ==
  IF Len(s.packetBuffer) < 5 THEN s
  ELSE IF s.packetBuffer[1] # HEADER_BYTE
  THEN [s EXCEPT !.packetBuffer = <<>>]
  ELSE LET dataLengthFromField == s.packetBuffer[2]
           totalPacketLength == 1 + 1 + 1 + 2 + dataLengthFromField + 2
       IN IF Len(s.packetBuffer) < totalPacketLength THEN s
          ELSE LET packet == Slice(s.packetBuffer, 0, totalPacketLength)
                   s1 == parseResponse(
                           [s EXCEPT !.rxFrames = Append(@, packet)], packet)
               IN dataLoopDropAll([s1 EXCEPT !.packetBuffer =
                                     Slice(@, totalPacketLength, Len(@))])

\* the while loop of port.on('data') over the buffered bytes
RECURSIVE dataLoop(_)
dataLoop(s) ==
  IF Len(s.packetBuffer) < 5 THEN s
  ELSE IF s.packetBuffer[1] # HEADER_BYTE
  THEN dataLoop([s EXCEPT !.packetBuffer = Tail(@)])
  ELSE LET dataLengthFromField == s.packetBuffer[2]
           totalPacketLength == 1 + 1 + 1 + 2 + dataLengthFromField + 2
       IN IF Len(s.packetBuffer) < totalPacketLength THEN s
          ELSE IF s.throws
          \* catch (e): the buffer is dropped and the loop left; the debug log
          \* before that reads `packet`, a const of the try block that is not
          \* in scope here, so with --dbg a ReferenceError leaves the handler
          \* and ends the process
          THEN IF s.isDbgLogEnabled THEN Exited(s.lastEvent)
               ELSE [s EXCEPT !.packetBuffer = <<>>, !.throws = FALSE]
          ELSE LET packet == Slice(s.packetBuffer, 0, totalPacketLength)
                   s1 == parseResponse(
                           [s EXCEPT !.rxFrames = Append(@, packet)], packet)
               IN dataLoop([s1 EXCEPT !.packetBuffer =
                              Slice(@, totalPacketLength, Len(@))])

\* onData that buffers the bytes and leaves the loop out
onDataNoLoop(s, data) == [s EXCEPT !.packetBuffer = @ \o data]

\* onData that forgets the bytes buffered by the earlier data events
onDataNoConcat(s, data) == dataLoop([s EXCEPT !.packetBuffer = data])

onData(s, data) == dataLoop([s EXCEPT !.packetBuffer = @ \o data])

\* --------------------------------------------------------------- handshake
\* startAutoMode that leaves autoModeState as it is
startAutoModeNoState(s) ==
  LET s1 == sendWithCrc(s, HEX_START_APP)
  IN [s1 EXCEPT !.timeouts = @ + 1, !.hsTrace = <<>>]

startAutoMode(s) ==
  LET s1 == sendWithCrc(s, HEX_START_APP)
  IN [s1 EXCEPT !.autoModeState = 1, !.timeouts = @ + 1, !.hsTrace = <<>>]

\* the callback that queries the stage and starts the handshake again
onHandshakeTimeoutRetry(s) ==
  IF s.autoModeState = 1
  THEN LET s1 == sendWithCrc(s, HEX_GET_RUNNING_STAGE)
       IN [s1 EXCEPT !.timeouts = @ + 1]
  ELSE s

\* the callback startAutoMode hands to setTimeout
onHandshakeTimeout(s) ==
  IF s.autoModeState = 1 THEN sendWithCrc(s, HEX_GET_RUNNING_STAGE) ELSE s

\* ------------------------------------------------------------------- start
Modes == {MODE_AUTO, MODE_INVENTORY, MODE_READ_TAG, MODE_INTERACTIVE}

\* the start-up logic at the end of main(): the inventory is loaded and
\* startAutoMode is called whatever the mode is
Started(m, path) ==
  LET s0 == Declared(m, path)
      s1 == IF path THEN loadInventory(s0) ELSE s0
  IN startAutoMode(s1)

Holds(s) ==
  /\ mode = s.mode
  /\ inventoryFilePath = s.inventoryFilePath
  /\ inventoryMode = s.inventoryMode
  /\ isDbgLogEnabled = s.isDbgLogEnabled
  /\ throws = s.throws
  /\ packetBuffer = s.packetBuffer
  /\ autoModeState = s.autoModeState
  /\ isScanning = s.isScanning
  /\ refreshIntervalId = s.refreshIntervalId
  /\ scannedTagsCumulative = s.scannedTagsCumulative
  /\ scannedTagsRefresh = s.scannedTagsRefresh
  /\ inventoryData = s.inventoryData
  /\ wsClients = s.wsClients
  /\ readTagScans = s.readTagScans
  /\ intervals = s.intervals
  /\ timeouts = s.timeouts
  /\ exitTimer = s.exitTimer
  /\ running = s.running
  /\ portOpened = s.portOpened
  /\ wire = s.wire
  /\ nFrames = s.nFrames
  /\ nCmds = s.nCmds
  /\ readyState = s.readyState
  /\ written = s.written
  /\ sent = s.sent
  /\ lastEvent = s.lastEvent
  /\ flushed = s.flushed
  /\ flushCalls = s.flushCalls
  /\ obs = s.obs
  /\ counted = s.counted
  /\ skippedAbsent = s.skippedAbsent
  /\ sessionObs = s.sessionObs
  /\ reported = s.reported
  /\ hsTrace = s.hsTrace
  /\ staleTimeouts = s.staleTimeouts
  /\ batched = s.batched
  /\ tsvFile = s.tsvFile
  /\ rxStream = s.rxStream
  /\ rxFrames = s.rxFrames

\* --mode inventory without --inventory exits before anything is set up
Init ==
  \E m \in Modes, path \in BOOLEAN :
    /\ m = MODE_INVENTORY => path
    /\ Holds(Started(m, path))

\* ----------------------------------------------------------------- actions
\* port.on('open')
PortOpen ==
  /\ running /\ ~portOpened
  /\ LET s0 == [Begin("open") EXCEPT !.portOpened = TRUE]
         s1 == IF s0.inventoryFilePath THEN loadInventory(s0) ELSE s0
     IN Commit(IF s1.mode \in ScanModes THEN startAutoMode(s1) ELSE s1)

\* the timeout armed by startAutoMode fires
HandshakeTimeout ==
  /\ running /\ timeouts > 0
  /\ LET ev == IF staleTimeouts > 0 THEN "staleTimeout" ELSE "timeout"
         s0 == [Begin(ev) EXCEPT
                  !.timeouts = @ - 1,
                  !.staleTimeouts = IF @ > 0 THEN @ - 1 ELSE 0,
                  !.hsTrace = TraceAppend(@, "timeout")]
     IN Commit(onHandshakeTimeout(s0))

\* the device puts one frame on the serial line
deviceSend(s, frame) == [s EXCEPT !.wire = frame, !.nFrames = @ + 1]

\* port.on('data') for the first k bytes on the line
deliver(s, k) ==
  LET s0 == [s EXCEPT !.wire = Slice(@, k, Len(@)), !.written = <<>>,
                      !.sent = <<>>, !.flushed = FALSE, !.obs = <<>>,
                      !.counted = <<>>, !.lastEvent = "data"]
      s1 == onData(s0, Slice(s.wire, 0, k))
  IN [s1 EXCEPT !.rxFrames = <<>>]

\* data arrives only from an open port
DeviceSend(frame) ==
  /\ running /\ portOpened /\ wire = <<>>
  /\ Commit(deviceSend(St, frame))

\* the bytes on the line arrive, all of them or the first k
Deliver(k) ==
  /\ running /\ wire # <<>>
  /\ k <= Len(wire)
  /\ k < Len(wire) => packetBuffer = <<>>
  /\ Commit(deliver(St, k))

\* a frame is sent and arrives in one data event
Arrive(frame) ==
  /\ running /\ portOpened /\ wire = <<>>
  /\ Commit(deliver(deviceSend(St, frame), Len(frame)))

\* the interval armed by sendWithCrc fires
FlushTimer ==
  /\ running /\ intervals # {}
  /\ Commit(logScannedTags(Begin("flushTimer")))

\* wss.on('connection')
WsConnect(c) ==
  /\ running /\ readyState[c] = "NONE"
  /\ LET s0 == [Begin("connection") EXCEPT !.readyState[c] = "OPEN",
                                            !.wsClients = Append(@, c)]
     IN Commit([s0 EXCEPT !.sent =
                  Append(@, Message(c, "initialInventory",
                                    InitialInventory(s0), ""))])

\* ws.on('message')
WsStart(c) ==
  /\ running /\ readyState[c] = "OPEN"
  /\ LET s0 == [Begin("start") EXCEPT
                  !.nCmds = @ + 1,
                  !.mode = IF inventoryFilePath THEN MODE_INVENTORY
                           ELSE MODE_AUTO,
                  !.readTagScans = <<>>, !.sessionObs = <<>>,
                  !.reported = <<>>]
     IN Commit(sendWithCrc(s0, HEX_SCAN_START))

WsStop(c) ==
  /\ running /\ readyState[c] = "OPEN"
  /\ LET s0 == [Begin("stop") EXCEPT
                  !.nCmds = @ + 1,
                  !.readTagScans = <<>>, !.sessionObs = <<>>,
                  !.reported = <<>>]
     IN Commit(sendWithCrc(s0, HEX_SCAN_STOP))

WsReadTag(c) ==
  /\ running /\ readyState[c] = "OPEN"
  /\ LET s0 == [Begin("read-tag") EXCEPT
                  !.nCmds = @ + 1,
                  !.mode = MODE_READ_TAG,
                  !.readTagScans = <<>>, !.sessionObs = <<>>,
                  !.reported = <<>>]
     IN Commit(sendWithCrc(s0, HEX_SCAN_START))

WsUploadInventory(c, csvData) ==
  /\ running /\ readyState[c] = "OPEN"
  /\ LET s0 == parseInventoryData(
                 [Begin("upload_inventory") EXCEPT !.nCmds = @ + 1], csvData)
     IN Commit(Broadcast(s0, 1, "initialInventory", InitialInventory(s0), ""))

\* the subscriber's socket closes; its 'close' event is delivered later
SocketClosed(c) ==
  /\ running /\ readyState[c] = "OPEN"
  /\ Commit([St EXCEPT !.readyState[c] = "CLOSED"])

\* ws.on('close') that forgets every subscriber
WsCloseAll(c) ==
  /\ running /\ readyState[c] = "CLOSED"
  /\ Commit([Begin("close") EXCEPT !.wsClients = <<>>,
                                    !.readyState[c] = "GONE"])

\* ws.on('close')
WsClose(c) ==
  /\ running /\ readyState[c] = "CLOSED"
  /\ Commit([Begin("close") EXCEPT
               !.wsClients = SelectSeq(@, LAMBDA client : client # c),
               !.readyState[c] = "GONE"])

\* process.on('SIGINT')
Sigint ==
  /\ running
  /\ Commit(sendWithCrc([Begin("SIGINT") EXCEPT !.exitTimer = TRUE],
                        HEX_SCAN_STOP))

\* the SIGINT handler's timeout: process.exit()
ExitTimer ==
  /\ running /\ exitTimer
  /\ Commit(Exited("exit"))

\* port.on('error'): process.exit(1)
PortError ==
  /\ running
  /\ Commit(Exited("error"))

\* port.on('close'): process.exit(0)
PortClose ==
  /\ running
  /\ Commit(Exited("portClose"))

\* ---------------------------------------------------------- specifications
\* The program with its device and one subscriber: frames arrive whole.
Next ==
  \/ PortOpen
  \/ HandshakeTimeout
  \/ \E frame \in DeviceFrames : nFrames < MaxFrames /\ Arrive(frame)
  \/ FlushTimer
  \/ \E c \in Clients : WsConnect(c)
  \/ \E c \in Clients : nCmds < MaxCmds /\ WsStart(c)
  \/ \E c \in Clients : nCmds < MaxCmds /\ WsStop(c)
  \/ \E c \in Clients : nCmds < MaxCmds /\ WsReadTag(c)
  \/ \E c \in Clients, csvData \in CsvUploads :
       nCmds < MaxCmds /\ WsUploadInventory(c, csvData)
  \/ \E c \in Clients : SocketClosed(c)
  \/ \E c \in Clients : WsClose(c)
  \/ PortError
  \/ PortClose

Spec == Init /\ [][Next]_vars

\* A single-tag identification session: up to MaxTagFrames frames, tag reads
\* and the acknowledgment, and the commands that start and stop a session.
NextReadTag ==
  \/ PortOpen
  \/ HandshakeTimeout
  \/ \E frame \in TagFrames \cup {AppRunningAck} :
       nFrames < MaxTagFrames /\ Arrive(frame)
  \/ \E c \in Clients : WsConnect(c)
  \/ \E c \in Clients : nCmds < MaxCmds /\ WsReadTag(c)
  \/ \E c \in Clients : nCmds < MaxCmds /\ WsStop(c)

SpecReadTag == Init /\ [][NextReadTag]_vars

\* The reassembler alone: any bytes of RxBytes, cut into data events of up to
\* MaxChunk bytes, MaxStream bytes in all; rxStream and rxFrames record them.
RxChunks == UNION {[1..n -> RxBytes] : n \in 1..MaxChunk}

RxData(data) ==
  /\ running /\ portOpened
  /\ Len(rxStream) + Len(data) <= MaxStream
  /\ Commit(onData([Begin("data") EXCEPT !.rxStream = @ \o data], data))

InitRx == Init /\ mode = MODE_AUTO /\ ~inventoryFilePath

NextRx ==
  \/ PortOpen
  \/ \E data \in RxChunks : RxData(data)

SpecRx == InitRx /\ [][NextRx]_vars

\* The handshake with the frames in flight: the device puts a frame on the
\* line, the event loop delivers it, whole or cut in two, and fires the
\* timeouts; nothing fails.
NextLive ==
  \/ PortOpen
  \/ HandshakeTimeout
  \/ \E frame \in HandshakeFrames : nFrames < MaxFrames /\ DeviceSend(frame)
  \/ \E k \in SplitAt \cup {Len(wire)} : Deliver(k)
  \/ FlushTimer
  \/ \E c \in Clients : WsConnect(c)
  \/ \E c \in Clients : nCmds < MaxCmds /\ WsStart(c)
  \/ \E c \in Clients : nCmds < MaxCmds /\ WsStop(c)

\* The steps the event loop owes: a step of HandshakeTimeout is the step that
\* takes one from timeouts, a step of Deliver(Len(wire)) the one that empties
\* the line.
TimeoutFires == running /\ timeouts > 0 /\ timeouts' = timeouts - 1
WireDelivered == running /\ wire # <<>> /\ wire' = <<>>

SpecLive ==
  /\ Init /\ [][NextLive]_vars
  /\ WF_timeouts(TimeoutFires)
  /\ WF_wire(WireDelivered)

\* the callback of port.write is called with an error: it logs the error
WriteError ==
  /\ running /\ portOpened
  /\ Commit(Begin("writeError"))

\* a frame arrives whose interpretation throws inside parseResponse
RxThrows(frame) ==
  /\ running /\ portOpened /\ wire = <<>> /\ packetBuffer = <<>>
  /\ LET s0 == [deviceSend(St, frame) EXCEPT !.throws = TRUE]
         s1 == deliver(s0, Len(frame))
     IN Commit([s1 EXCEPT !.lastEvent = "dataThrows"])

\* The program with failures of the transport and of the interpretation of a
\* frame, for either setting of --dbg.
InitFailure ==
  \E m \in Modes, path \in BOOLEAN, dbg \in BOOLEAN :
    /\ m = MODE_INVENTORY => path
    /\ Holds([Started(m, path) EXCEPT !.isDbgLogEnabled = dbg])

NextFailure ==
  \/ PortOpen
  \/ HandshakeTimeout
  \/ \E frame \in DeviceFrames : nFrames < MaxFrames /\ Arrive(frame)
  \/ \E frame \in DeviceFrames : nFrames < MaxFrames /\ RxThrows(frame)
  \/ FlushTimer
  \/ \E c \in Clients : WsConnect(c)
  \/ \E c \in Clients : nCmds < MaxCmds /\ WsStart(c)
  \/ \E c \in Clients : nCmds < MaxCmds /\ WsStop(c)
  \/ WriteError
  \/ PortError
  \/ PortClose

SpecFailure == InitFailure /\ [][NextFailure]_vars

\* port.on('data') for a frame of OtherFrames
ArriveOther(frame) ==
  /\ running /\ portOpened /\ wire = <<>>
  /\ Commit([deliver(deviceSend(St, frame), Len(frame)) EXCEPT
               !.lastEvent = "dataOther"])

\* The decoder: the acknowledgment, tag reads with whole and with short
\* payloads and the frames of OtherFrames, in sessions of every mode.
NextDecoder ==
  \/ PortOpen
  \/ \E frame \in {AppRunningAck} \cup TagFrames \cup ShortTagFrames :
       nFrames < MaxFrames /\ Arrive(frame)
  \/ \E frame \in OtherFrames : nFrames < MaxFrames /\ ArriveOther(frame)
  \/ FlushTimer
  \/ \E c \in Clients : WsConnect(c)
  \/ \E c \in Clients : nCmds < MaxCmds /\ WsStart(c)
  \/ \E c \in Clients : nCmds < MaxCmds /\ WsReadTag(c)
  \/ \E c \in Clients : nCmds < MaxCmds /\ WsStop(c)

SpecDecoder == Init /\ [][NextDecoder]_vars

\* Two subscribers that connect and disconnect while sessions run in every
\* mode: the acknowledgment starts a session, tag reads and flushes follow.
TwoClients == {"c1", "c2"}

InitTwoClients ==
  \E m \in Modes, path \in BOOLEAN :
    /\ m = MODE_INVENTORY => path
    /\ Holds([Started(m, path) EXCEPT
                !.readyState = [c \in TwoClients |-> "NONE"]])

NextTwoClients ==
  \/ PortOpen
  \/ \E frame \in {AppRunningAck} \cup TagFrames :
       nFrames < MaxFrames /\ Arrive(frame)
  \/ FlushTimer
  \/ \E c \in TwoClients : WsConnect(c)
  \/ \E c \in TwoClients : nCmds < MaxCmds /\ WsStop(c)
  \/ \E c \in TwoClients : SocketClosed(c)
  \/ \E c \in TwoClients : WsClose(c)

SpecTwoClients == InitTwoClients /\ [][NextTwoClients]_vars

\* A reader that never sends a frame: the handshake and its timeouts, with a
\* subscriber that connects, starts and stops sessions and disconnects.
NextSilent ==
  \/ PortOpen
  \/ HandshakeTimeout
  \/ FlushTimer
  \/ \E c \in Clients : WsConnect(c)
  \/ \E c \in Clients : nCmds < MaxCmds /\ WsStart(c)
  \/ \E c \in Clients : nCmds < MaxCmds /\ WsStop(c)
  \/ \E c \in Clients : nCmds < MaxCmds /\ WsReadTag(c)
  \/ \E c \in Clients : SocketClosed(c)
  \/ \E c \in Clients : WsClose(c)

SpecSilent == Init /\ [][NextSilent]_vars

\* Sessions that end by a subscriber's stop command or by Ctrl+C.
NextShutdown ==
  \/ PortOpen
  \/ \E frame \in {AppRunningAck} \cup TagFrames :
       nFrames < MaxFrames /\ Arrive(frame)
  \/ FlushTimer
  \/ \E c \in Clients : WsConnect(c)
  \/ \E c \in Clients : nCmds < MaxCmds /\ WsStart(c)
  \/ \E c \in Clients : nCmds < MaxCmds /\ WsStop(c)
  \/ Sigint
  \/ ExitTimer

SpecShutdown == Init /\ [][NextShutdown]_vars

\* port.on('data') for a frame of a known kind; ev names the kind
ArriveAs(frame, ev) ==
  /\ running /\ portOpened /\ wire = <<>>
  /\ Commit([deliver(deviceSend(St, frame), Len(frame)) EXCEPT
               !.lastEvent = ev])

\* The handshake frame by frame: the acknowledgment, the two running-stage
\* replies and tag reads arrive in any order, the timeouts fire and a
\* subscriber starts and stops sessions.
NextHandshake ==
  \/ PortOpen
  \/ HandshakeTimeout
  \/ nFrames < MaxFrames /\ ArriveAs(AppRunningAck, "dataAck")
  \/ nFrames < MaxFrames /\ ArriveAs(StageFrame(STAGE_APP), "dataApp")
  \/ nFrames < MaxFrames /\ ArriveAs(StageFrame(STAGE_BOOTLOADER), "dataBoot")
  \/ \E frame \in TagFrames : nFrames < MaxFrames /\ ArriveAs(frame, "dataTag")
  \/ FlushTimer
  \/ \E c \in Clients : WsConnect(c)
  \/ \E c \in Clients : nCmds < MaxCmds /\ WsStart(c)
  \/ \E c \in Clients : nCmds < MaxCmds /\ WsStop(c)
  \/ \E c \in Clients : nCmds < MaxCmds /\ WsReadTag(c)

SpecHandshake == Init /\ [][NextHandshake]_vars

\* The checksum alone: sendWithCrc is called with any of CrcInputs.
SendCommand(data) ==
  /\ running
  /\ Commit(sendWithCrc(Begin("send"), data))

NextCrc == \E data \in CrcInputs : SendCommand(data)

SpecCrc == InitRx /\ [][NextCrc]_vars

\* the last handler wrote a packet that carries the command
Wrote(command) ==
  \E i \in 1..Len(written) : StartsWith(written[i], command)

\* ------------------------------------------------------------- reassembler
\* C1: however the received bytes were cut into data events, the frames
\* handed to parseResponse, and the bytes left in the buffer, are those of a
\* single data event that carries all of the bytes.
C1_ChunkInvariance ==
  LET whole == onData([St EXCEPT !.packetBuffer = <<>>, !.rxFrames = <<>>],
                      rxStream)
  IN rxFrames = whole.rxFrames /\ packetBuffer = whole.packetBuffer

\* a frame that came in several data events, behind a byte that was dropped
C1_Witness ==
  /\ lastEvent = "data" /\ rxFrames # <<>>
  /\ rxStream[1] # HEADER_BYTE

\* C2: every frame handed to parseResponse starts with the header byte and
\* is 1+1+1+2+L+2 bytes long, L being its second byte; a shorter slice is
\* never handed on.
C2_WholeFrames ==
  \A i \in 1..Len(rxFrames) :
    /\ rxFrames[i][1] = HEADER_BYTE
    /\ Len(rxFrames[i]) = 1 + 1 + 1 + 2 + rxFrames[i][2] + 2

\* a frame with a payload byte was handed on, its last bytes having come in a
\* later data event than its header
C2_Witness ==
  \E i \in 1..Len(rxFrames) : rxFrames[i][2] = 1 /\ Len(rxFrames[i]) = 8

\* --------------------------------------------------------------- handshake
\* C3: with no acknowledgment the timeout sends the stage query; a
\* stage=Bootloader reply then returns the handshake to AppStartRequested
\* (autoModeState 1, start-app sent again) and a stage=Application reply
\* that follows moves it to Scanning (autoModeState 2, begin-scan sent).
C3_BootloaderThenApplication ==
  mode \in ScanModes =>
    /\ hsTrace = <<"timeout", "boot">> => autoModeState = 1
    /\ hsTrace = <<"timeout", "boot", "app">> => autoModeState = 2

\* the handshake has reached Scanning in the last handler: begin-scan is sent
ScanningReached ==
  /\ autoModeState = 2 /\ isScanning
  /\ Wrote(HEX_SCAN_START)

\* C4: after a session start, an acknowledgment the device has sent, or a
\* stage=Application reply it has sent to the query of the timeout, is
\* followed by Scanning and the begin-scan command.
C4_HandshakeConverges ==
  /\ (mode \in ScanModes /\ wire = AppRunningAck) ~> ScanningReached
  /\ (mode \in ScanModes /\ hsTrace = <<"timeout">>
        /\ wire = StageFrame(STAGE_APP)) ~> ScanningReached

\* Scanning was reached by the timeout and the stage=Application reply
C4_Witness ==
  ScanningReached /\ hsTrace = <<"timeout", "app">> /\ nCmds = 0

\* C5: after a stop neither the flush interval nor a handshake timeout armed
\* before the stop has an effect: the flush callback runs only while
\* scanning, and such a timeout writes no command and sends no message.
C5_NoStaleCallback ==
  /\ lastEvent = "flushTimer" => isScanning
  /\ lastEvent = "staleTimeout" => written = <<>> /\ sent = <<>>

\* ------------------------------------------------------------------ decoder
\* the update batches the last handler sent
UpdateBatches == {i \in 1..Len(sent) : sent[i].type = "updates"}

\* C6: in mode inventory no update record of a flush names an identifier
\* that is absent from the inventory, and the handler that observes such an
\* identifier ends normally.
C6_FlushOnlyInventory ==
  mode = MODE_INVENTORY =>
    /\ \A i \in UpdateBatches : \A j \in 1..Len(sent[i].list) :
         MapHas(inventoryData, sent[i].list[j].epc)
    /\ (\E e \in Range(obs) : ~MapHas(inventoryData, e)) => running

\* a flush sent a batch in a session in which an absent identifier was seen
C6_Witness ==
  /\ mode = MODE_INVENTORY /\ flushed /\ UpdateBatches # {}
  /\ \/ skippedAbsent
     \/ \E i \in 1..Len(scannedTagsCumulative) :
          ~MapHas(inventoryData, scannedTagsCumulative[i].key)

\* C7: whenever the mode is inventory, an observation of an identifier that
\* is absent from the inventory is not added to the tables.
C7_AbsentNotCounted ==
  mode = MODE_INVENTORY =>
    \A e \in Range(obs) : ~MapHas(inventoryData, e) => e \notin Range(counted)

\* occurrences of e in seq, and the first n elements of seq
CountIn(seq, e) == Cardinality({i \in 1..Len(seq) : seq[i] = e})
Prefix(seq, n) == SubSeq(seq, 1, n)
\* the identifiers of seq with the highest number of occurrences
Maxima(seq) ==
  {e \in Range(seq) : \A f \in Range(seq) : CountIn(seq, f) <= CountIn(seq, e)}
\* the position in seq at which e has occurred c times
ReachedAt(seq, e, c) ==
  Min({n \in 1..Len(seq) : CountIn(Prefix(seq, n), e) = c})
\* of the maxima, the one that reached the highest count first
FirstReached(seq) ==
  CHOOSE e \in Maxima(seq) : \A f \in Maxima(seq) :
    ReachedAt(seq, e, CountIn(seq, e)) <= ReachedAt(seq, f, CountIn(seq, f))
\* of the maxima, the one that was observed first
FirstObserved(seq) ==
  CHOOSE e \in Maxima(seq) : \A f \in Maxima(seq) :
    ReachedAt(seq, e, 1) <= ReachedAt(seq, f, 1)
\* the identifiers the last handler sent to the subscribers
EpcSent == {sent[i].epc : i \in {j \in 1..Len(sent) : sent[j].type = "epc"}}

\* C8: after every observation of a single-tag session the identifier
\* reported has the highest number of occurrences so far; after A,A,B the
\* reports are A, A, A.
C8_ReportedIsAMaximum ==
  /\ Len(reported) = Len(sessionObs)
  /\ \A n \in 1..Len(reported) : reported[n] \in Maxima(Prefix(sessionObs, n))
  /\ EpcSent # {} => reported # <<>> /\ EpcSent = {reported[Len(reported)]}
  /\ (Len(sessionObs) >= 3 /\ Prefix(sessionObs, 3) = <<"A1", "A1", "B2">>)
       => Prefix(reported, 3) = <<"A1", "A1", "A1">>

\* A, A, B were observed and A was sent to the subscriber after B
C8_Witness ==
  sessionObs = <<"A1", "A1", "B2">> /\ EpcSent = {"A1"}

\* C9: of the identifiers that share the highest count, the one that reached
\* that count first is reported; after A,B,B,A the report is B.
C9_FirstReachedMaximum ==
  /\ \A n \in 1..Len(reported) :
       reported[n] = FirstReached(Prefix(sessionObs, n))
  /\ sessionObs = <<"A1", "B2", "B2", "A1">> => reported[4] = "B2"

\* C9: of the identifiers that share the highest count, the one that was
\* observed first in the session is reported; after A,B,B,A the report is A.
C9_FirstObservedMaximum ==
  /\ \A n \in 1..Len(reported) :
       reported[n] = FirstObserved(Prefix(sessionObs, n))
  /\ sessionObs = <<"A1", "B2", "B2", "A1">> => reported[4] = "A1"

\* A, B, B, A were observed and A was sent to the subscriber after them
C9_Witness ==
  sessionObs = <<"A1", "B2", "B2", "A1">> /\ EpcSent = {"A1"}

\* -------------------------------------------------------------------- flush
\* C10: a flush that follows a flush with no tag observation in between
\* sends no update to any subscriber.
C10_SecondFlushSilent ==
  (flushed /\ flushCalls = 2) => UpdateBatches = {}

\* the second of two flushes, with a subscriber connected and an inventory
\* identifier counted in the session
C10_Witness ==
  /\ flushed /\ flushCalls = 2
  /\ \E c \in Clients : readyState[c] = "OPEN"
  /\ \E i \in 1..Len(scannedTagsCumulative) :
       MapHas(inventoryData, scannedTagsCumulative[i].key)

\* ---------------------------------------------------------------- inventory
\* C11: an upload_inventory command whose text has no EPC column leaves the
\* inventory as it was before the command.
C11_RejectedUploadKeepsInventory ==
  [][\A c \in Clients, csvData \in CsvUploads :
       (IndexOf(csvData[1], "EPC") = -1 /\ WsUploadInventory(c, csvData))
         => inventoryData' = inventoryData]_vars

\* a step of the upload_inventory handler
UploadStep == lastEvent' = "upload_inventory" /\ nCmds' = nCmds + 1

\* the update records the last handler sent
UpdateRecords ==
  UNION {Range(sent[i].list) : i \in UpdateBatches}

\* C12: an upload_inventory command leaves the window table, the cumulative
\* table, the scanning flag and the flush interval as they were, and the
\* observations and flushes handled afterwards are filtered and resolved
\* against the inventory as it is then.
C12_ReloadKeepsSession ==
  /\ [][UploadStep =>
          /\ scannedTagsRefresh' = scannedTagsRefresh
          /\ scannedTagsCumulative' = scannedTagsCumulative
          /\ isScanning' = isScanning
          /\ intervals' = intervals
          /\ refreshIntervalId' = refreshIntervalId]_vars
  /\ [](\A r \in UpdateRecords :
          /\ MapHas(inventoryData, r.epc)
          /\ r.id = MapGet(inventoryData, r.epc).id
          /\ r.item = MapGet(inventoryData, r.epc).item)
  /\ []((inventoryMode /\ mode # MODE_READ_TAG) =>
          \A e \in Range(obs) :
            e \in Range(counted) <=> MapHas(inventoryData, e))

\* a flush after an upload: a tag that only the uploaded inventory lists is
\* reported with the uploaded item name
C12_Witness ==
  /\ lastEvent = "flushTimer" /\ isScanning
  /\ \E r \in UpdateRecords : r.epc = "B2" /\ r.item = "wrench" /\ r.count >= 1

\* ------------------------------------------------------------------ session
\* C13: the handler that issues the scan-start command leaves both counter
\* tables empty, the scanning flag true and one flush interval armed, also
\* when a session is already active.
C13_StartClearsAndArms ==
  Wrote(HEX_SCAN_START) =>
    /\ scannedTagsCumulative = <<>> /\ scannedTagsRefresh = <<>>
    /\ isScanning
    /\ refreshIntervalId # NULL /\ intervals = {refreshIntervalId}

\* scan-start issued for a second acknowledgment, in the session the first
\* one started (no command could have stopped it)
C13_Witness ==
  /\ Wrote(HEX_SCAN_START) /\ lastEvent = "data"
  /\ nCmds = 0 /\ nFrames = 2 /\ refreshIntervalId = 2

\* a step of the stop handler
StopStep == lastEvent' = "stop" /\ nCmds' = nCmds + 1

\* the window counters that resolve in the inventory
ResolvedWindow ==
  {[epc |-> scannedTagsRefresh[i].key, count |-> scannedTagsRefresh[i].count] :
     i \in {j \in 1..Len(scannedTagsRefresh) :
              MapHas(inventoryData, scannedTagsRefresh[j].key)}}

\* the subscribers a broadcast reaches
OpenClients == {c \in Range(wsClients) : readyState[c] = "OPEN"}

\* C14: a stop of an active session cancels the flush interval, writes the
\* scan-stop command, flushes once (each subscriber gets at most one batch,
\* which lists every window counter that resolves in the inventory once) and
\* ends with the window table empty and the scanning flag false.
C14_StopFlushesOnce ==
  [][(StopStep /\ isScanning) =>
       LET batches == {i \in 1..Len(sent') : sent'[i].type = "updates"}
       IN /\ intervals' = {}
          /\ Wrote(HEX_SCAN_STOP)'
          /\ scannedTagsRefresh' = <<>> /\ ~isScanning'
          /\ Cardinality(batches) =
               IF ResolvedWindow = {} THEN 0 ELSE Cardinality(OpenClients)
          /\ \A i \in batches :
               /\ Len(sent'[i].list) = Cardinality(ResolvedWindow)
               /\ {[epc |-> r.epc, count |-> r.count] :
                     r \in Range(sent'[i].list)} = ResolvedWindow]_vars

\* a stop whose final flush sent a batch
C14_Witness ==
  /\ lastEvent = "stop" /\ flushed /\ UpdateBatches # {}
  /\ ~isScanning /\ intervals = {} /\ scannedTagsRefresh = <<>>

\* C15: after a scan-stop that ended a session the cumulative table is empty.
C15_StopClearsCumulative ==
  (lastEvent = "stop" /\ flushed /\ Wrote(HEX_SCAN_STOP))
    => scannedTagsCumulative = <<>>

\* C16: after an explicit stop the handshake state is not Scanning any more.
C16_StopLeavesScanning ==
  (lastEvent = "stop" /\ Wrote(HEX_SCAN_STOP))
    => autoModeState # 2

\* C17: in mode auto a flush sends the subscribers an update record for every
\* identifier that has a window counter, whether the inventory lists it or not.
C17_UnfilteredFlushEmitsAll ==
  [][(flushed' /\ mode' = MODE_AUTO /\ OpenClients # {}) =>
       \A i \in 1..Len(scannedTagsRefresh) :
         \E j \in 1..Len(sent') :
           /\ sent'[j].type = "updates"
           /\ \E r \in Range(sent'[j].list) :
                r.epc = scannedTagsRefresh[i].key]_vars

\* a step of the flush interval's callback
FlushStep == lastEvent' = "flushTimer" /\ flushed'

\* C18: a flush empties the window table and leaves the cumulative table,
\* the inventory, the scanning flag and the handshake state as they were.
C18_FlushFrame ==
  [][FlushStep =>
       /\ scannedTagsRefresh' = <<>>
       /\ scannedTagsCumulative' = scannedTagsCumulative
       /\ inventoryData' = inventoryData
       /\ isScanning' = isScanning
       /\ autoModeState' = autoModeState]_vars

\* a flush that sent the counters of its window and kept the cumulative ones
C18_Witness ==
  /\ lastEvent = "flushTimer" /\ flushed /\ UpdateBatches # {}
  /\ scannedTagsRefresh = <<>> /\ scannedTagsCumulative # <<>>

\* ----------------------------------------------------------------- failures
\* C19: once a failure of the serial link has been signalled, by the error
\* of a write or by the port's error or close event, no command is written.
C19_NoWriteAfterFailure ==
  [][(lastEvent \in {"writeError", "error", "portClose"}) => written' = <<>>]_vars

\* C20: when the interpretation of a frame throws, the buffer is dropped,
\* the process keeps running and nothing is sent to the subscribers.
C20_ExceptionIsRecovered ==
  lastEvent = "dataThrows" => running /\ packetBuffer = <<>> /\ sent = <<>>

\* ----------------------------------------------------------------- checksum
\* C23: the packet sendWithCrc writes is the command followed by the
\* big-endian CRC of the command's bytes after the header byte, and the CRC
\* recomputed over the packet from index 1 up to its last two bytes equals
\* those two bytes read big-endian.
C23_CrcRoundTrip ==
  \A i \in 1..Len(written) :
    LET packet == written[i]
        data == Slice(packet, 0, Len(packet) - 2)
    IN /\ Len(packet) >= 2
       /\ lastEvent = "send" => data \in CrcInputs
       /\ packet = data \o writeUInt16BE(calculate(Slice(data, 1, Len(data))))
       /\ readUInt16BE(packet, Len(packet) - 2)
            = calculate(Slice(packet, 1, Len(packet) - 2))

\* the scan-stop command was written with its checksum 0x0391
C23_Witness ==
  lastEvent = "send" /\ written = <<HEX_SCAN_STOP \o <<3, 145>>>>

\* C24: CRC.calculate over the bytes 0x00, 0x04 is 0x1D0B: the command
\* ff 00 04 is written as the start-application literal ff00041d0b.
C24_StartAppVector ==
  /\ calculate(<<0, 4>>) = 7435
  /\ \A i \in 1..Len(written) :
       Slice(written[i], 0, Len(written[i]) - 2) = <<HEADER_BYTE, 0, 4>>
         => written[i] = HEX_START_APP

\* the command ff 00 04 was written
C24_Witness ==
  lastEvent = "send" /\ written = <<HEX_START_APP>>

\* C25: CRC.calculate over the nine digits "123456789" is 0x29B1, the check
\* value of CRC-16/CCITT with polynomial 0x1021 and initial value 0xFFFF.
C25_ReferenceVector ==
  \A i \in 1..Len(written) :
    Slice(written[i], 1, Len(written[i]) - 2) = Ascii123456789
      => readUInt16BE(written[i], Len(written[i]) - 2) = 10673

\* C25: CRC.calculate over the nine digits "123456789" is 0xA69D: each data
\* bit is shifted into the low end of the register, so the result is not the
\* check value 0x29B1 of the CRC that xors the data bit into the high end.
C25_ShiftedInVector ==
  /\ calculate(Ascii123456789) = 42653
  /\ \A i \in 1..Len(written) :
       Slice(written[i], 1, Len(written[i]) - 2) = Ascii123456789
         => readUInt16BE(written[i], Len(written[i]) - 2) = 42653

\* the digits were written behind a header byte, with their checksum
C25_Witness ==
  /\ lastEvent = "send" /\ Len(written) = 1
  /\ Slice(written[1], 1, 10) = Ascii123456789
  /\ Slice(written[1], 10, 12) = <<166, 157>>

\* ------------------------------------------------------------ decoder, again
\* C21: a successful tag read whose payload is shorter than 7 bytes gives the
\* empty identifier, and the empty identifier is no observation in any mode:
\* it is added to no table, it is not reported and the process keeps running.
C21_EmptyIdentifierIgnored ==
  "" \in Range(obs) =>
    /\ running
    /\ counted = <<>>
    /\ ~MapHas(scannedTagsCumulative, "") /\ ~MapHas(scannedTagsRefresh, "")
    /\ ~MapHas(readTagScans, "")
    /\ EpcSent = {}

\* C22: a frame with a command code parseResponse has no branch for, or a
\* tag read whose status is not success, changes neither the handshake state
\* nor the scanning flag nor a table nor the inventory, and nothing is
\* written to the port or sent to a subscriber.
C22_OtherFrameIgnored ==
  [][lastEvent' = "dataOther" =>
       /\ autoModeState' = autoModeState /\ isScanning' = isScanning
       /\ scannedTagsCumulative' = scannedTagsCumulative
       /\ scannedTagsRefresh' = scannedTagsRefresh
       /\ readTagScans' = readTagScans
       /\ inventoryData' = inventoryData
       /\ intervals' = intervals /\ mode' = mode
       /\ written' = <<>> /\ sent' = <<>> /\ obs' = <<>>]_vars

\* such a frame was handled in a session in which a tag had been counted and
\* a subscriber was connected
C22_Witness ==
  /\ lastEvent = "dataOther" /\ isScanning
  /\ scannedTagsRefresh # <<>> /\ OpenClients # {}

\* a step of the data handler that decodes a tag read in mode read-tag
ReadTagStep == lastEvent' = "data" /\ obs' # <<>> /\ mode = MODE_READ_TAG

\* C26: an observation handled in mode read-tag leaves the cumulative table,
\* the window table and the inventory as they were and is not filtered: the
\* identifier, in the inventory or not, gets one more occurrence and an
\* identifier is reported to the subscribers that are connected.
C26_ReadTagBypassesFilter ==
  [][ReadTagStep =>
       /\ scannedTagsCumulative' = scannedTagsCumulative
       /\ scannedTagsRefresh' = scannedTagsRefresh
       /\ inventoryData' = inventoryData
       /\ counted' = <<>>
       /\ \A e \in Range(obs') :
            CountOf(readTagScans', e) = CountOf(readTagScans, e) + 1
       /\ OpenClients # {} =>
            \E i \in 1..Len(sent') :
              sent'[i].type = "epc" /\ MapHas(readTagScans', sent'[i].epc)]_vars

\* with the inventory listing only A1, B2 was observed in mode read-tag,
\* counted as an occurrence and reported
C26_Witness ==
  /\ lastEvent = "data" /\ mode = MODE_READ_TAG /\ obs = <<"B2">>
  /\ inventoryData # <<>> /\ ~MapHas(inventoryData, "B2")
  /\ CountOf(readTagScans, "B2") = 1 /\ EpcSent = {"B2"}
  /\ scannedTagsCumulative = <<>> /\ scannedTagsRefresh = <<>>

\* ------------------------------------------------------------- interleavings
\* C27: in a session whose inventory is not replaced, whatever the order of
\* data events, flush-timer events and commands, the batches the flushes
\* have built since the scan-start hold, for every inventory identifier, as many
\* observations as were accepted (cumulative count) less those still in the
\* window; after the final flush of a stop the two counts are equal.
C27_EveryObservationInOneBatch ==
  \A i \in 1..Len(inventoryData) :
    LET e == inventoryData[i].key
    IN /\ CountOf(batched, e) + CountOf(scannedTagsRefresh, e)
            = CountOf(scannedTagsCumulative, e)
       /\ (lastEvent = "stop" /\ flushed)
            => CountOf(batched, e) = CountOf(scannedTagsCumulative, e)

\* a stop whose final flush sent the second of two observations of A1, the
\* flush timer having sent the first
C27_Witness ==
  /\ lastEvent = "stop" /\ flushed
  /\ CountOf(scannedTagsCumulative, "A1") = 2 /\ CountOf(batched, "A1") = 2
  /\ \E r \in UpdateRecords : r.epc = "A1" /\ r.count = 1

\* a step of a handler that flushes or decodes a tag read
EmitStep == (flushed' \/ obs' # <<>>) /\ readyState' = readyState

\* C28: a subscriber whose socket has closed gets no message of a later flush
\* or single-identifier notification, before and after its 'close' event has
\* removed it from wsClients, and a flush's batch goes, once, to each of the
\* subscribers that are still connected.
C28_ClosedSubscriberLeft ==
  [][EmitStep =>
       /\ \A i \in 1..Len(sent') :
            /\ readyState[sent'[i].to] = "OPEN"
            /\ sent'[i].to \in Range(wsClients')
       /\ flushed' =>
            \A c \in {d \in TwoClients : readyState[d] = "OPEN"} :
              Cardinality({i \in 1..Len(sent') :
                             sent'[i].to = c /\ sent'[i].type = "updates"})
                = IF ResolvedWindow = {} THEN 0 ELSE 1]_vars

\* a flush sent its batch to c2 alone, c1 having been removed
C28_Witness ==
  /\ lastEvent = "flushTimer" /\ readyState["c1"] = "GONE"
  /\ UpdateBatches # {}
  /\ \A i \in 1..Len(sent) : sent[i].to = "c2"

\* ---------------------------------------------------------------- resources
\* C29: with a reader that never sends a frame, a session start (a call of
\* startAutoMode, at start-up and when the port opens) writes the
\* start-application command once and arms one timeout; the timeout, when it
\* fires, writes the query-running-stage command once and arms nothing; no
\* other step writes either command, so the handshake ends after at most two
\* timeouts.
C29_HandshakeBounded ==
  /\ [][timeouts' = timeouts + 1 =>
          /\ written' = <<packetToSend(HEX_START_APP)>>
          /\ autoModeState' = 1]_vars
  /\ [][timeouts' = timeouts - 1 =>
          written' = <<packetToSend(HEX_GET_RUNNING_STAGE)>>]_vars
  /\ [][timeouts' = timeouts =>
          \/ written' = written
          \/ ~Wrote(HEX_START_APP)' /\ ~Wrote(HEX_GET_RUNNING_STAGE)']_vars
  /\ [](timeouts <= (IF portOpened THEN 1 ELSE 0) + 1 /\ nFrames = 0)

\* both session starts have had their timeout: the second query is written
\* and no timeout is pending
C29_Witness ==
  /\ lastEvent \in {"timeout", "staleTimeout"} /\ timeouts = 0 /\ portOpened
  /\ written = <<packetToSend(HEX_GET_RUNNING_STAGE)>>
  /\ autoModeState = 1 /\ nFrames = 0

SessionState ==
  << autoModeState, isScanning, refreshIntervalId, intervals, timeouts,
     scannedTagsCumulative, scannedTagsRefresh, readTagScans >>

\* C31: the acknowledgment starts scanning (begin-scan written, state 2) when
\* the handshake state is 1 (AppStartRequested) and the mode is a scan mode;
\* in any other handshake state it writes nothing and changes nothing.
C31_AckOnlyWhenRequested ==
  [][lastEvent' = "dataAck" =>
       IF autoModeState = 1
       THEN mode \in ScanModes =>
              written' = <<packetToSend(HEX_SCAN_START)>> /\ autoModeState' = 2
       ELSE written' = <<>> /\ SessionState' = SessionState]_vars

\* C32: the timeout that fires in state 1 (AppStartRequested) writes the
\* query-running-stage command and leaves a state other than 1; fired in
\* another state it writes nothing and changes nothing.
C32_TimeoutEntersStageQueried ==
  [][lastEvent' \in {"timeout", "staleTimeout"} =>
       IF autoModeState = 1
       THEN /\ written' = <<packetToSend(HEX_GET_RUNNING_STAGE)>>
            /\ autoModeState' # 1
       ELSE written' = <<>> /\ autoModeState' = autoModeState]_vars

\* C33: a running-stage reply that arrives in state 1 before any timeout of
\* this handshake has fired writes nothing and changes nothing.
C33_StageReplyNeedsQuery ==
  [][/\ lastEvent' \in {"dataApp", "dataBoot"}
     /\ autoModeState = 1 /\ hsTrace = <<>>
     => written' = <<>> /\ SessionState' = SessionState]_vars

\* C34: a stage=Bootloader reply after the timeout has fired writes
\* start-application, sets state 1 (AppStartRequested) and arms a new timeout.
C34_BootloaderRearms ==
  [][/\ lastEvent' = "dataBoot"
     /\ autoModeState = 1 /\ hsTrace = <<"timeout">> /\ mode \in ScanModes
     => /\ written' = <<packetToSend(HEX_START_APP)>>
        /\ autoModeState' = 1
        /\ timeouts' = timeouts + 1]_vars

\* C35: a tag-read frame processed in a handshake state other than 2
\* (Scanning) changes no table and sends nothing to a subscriber.
C35_TagReadNeedsScanning ==
  [][lastEvent' = "dataTag" /\ autoModeState # 2 =>
       /\ scannedTagsCumulative' = scannedTagsCumulative
       /\ scannedTagsRefresh' = scannedTagsRefresh
       /\ readTagScans' = readTagScans
       /\ sent' = <<>>]_vars

\* ------------------------------------------------------ reassembler, again
\* C36: when the bytes received so far are a prefix without a header byte
\* followed by one whole frame (a header byte, a length byte L, 1+1+1+2+L+2
\* bytes in all), the prefix was dropped byte by byte, that frame and no
\* other was handed to parseResponse, and nothing is left in the buffer.
C36_GarbageThenFrame ==
  \A g \in 0..Len(rxStream) :
    LET frame == Slice(rxStream, g, Len(rxStream))
    IN (/\ \A i \in 1..g : rxStream[i] # HEADER_BYTE
        /\ Len(frame) >= 2
        /\ frame[1] = HEADER_BYTE
        /\ Len(frame) = 1 + 1 + 1 + 2 + frame[2] + 2)
       => rxFrames = <<frame>> /\ packetBuffer = <<>>

\* three bytes that are not the header, then a frame without payload, handed
\* on alone
C36_Witness ==
  /\ lastEvent = "data" /\ Len(rxStream) = 10
  /\ \A i \in 1..3 : rxStream[i] # HEADER_BYTE
  /\ rxStream[4] = HEADER_BYTE /\ rxStream[5] = 0
  /\ rxFrames = <<Slice(rxStream, 3, 10)>>

\* C37: after every data event the buffer holds fewer than 5 bytes, or it
\* starts with the header byte and holds fewer bytes than the frame its
\* length byte announces; so it never holds more than 261 bytes.
C37_BufferBounded ==
  /\ \/ Len(packetBuffer) < 5
     \/ /\ packetBuffer[1] = HEADER_BYTE
        /\ Len(packetBuffer) < 1 + 1 + 1 + 2 + packetBuffer[2] + 2
  /\ Len(packetBuffer) <= 261

\* five bytes or more are buffered behind a header byte, the frame not whole
C37_Witness ==
  /\ lastEvent = "data" /\ Len(packetBuffer) >= 5
  /\ packetBuffer[1] = HEADER_BYTE

\* -------------------------------------------------------------- flush timer
\* C38: in every state a flush interval is armed exactly when the scanning
\* flag is true, and no more than one is armed.
C38_TimerIffScanning ==
  /\ isScanning <=> intervals # {}
  /\ Cardinality(intervals) <= 1

\* a second start in a running session: the interval of the first start is
\* cleared, the one armed in its place is the only one
C38_Witness ==
  /\ lastEvent = "start" /\ isScanning
  /\ refreshIntervalId = 2 /\ intervals = {2}

\* ------------------------------------------------------------ counter tables
\* C39: every identifier of the window table is in the cumulative table too;
\* its window count is at least 1 and at most its cumulative count.
C39_WindowWithinCumulative ==
  \A i \in 1..Len(scannedTagsRefresh) :
    /\ MapHas(scannedTagsCumulative, scannedTagsRefresh[i].key)
    /\ scannedTagsRefresh[i].count >= 1
    /\ scannedTagsRefresh[i].count
         <= CountOf(scannedTagsCumulative, scannedTagsRefresh[i].key)

\* a tag counted before and after a flush: its window count is below its
\* cumulative count
C39_Witness ==
  /\ lastEvent = "data" /\ counted # <<>>
  /\ \E i \in 1..Len(scannedTagsRefresh) :
       scannedTagsRefresh[i].count
         < CountOf(scannedTagsCumulative, scannedTagsRefresh[i].key)

====
